---- MODULE Spec2Model ----
(***************************************************************************)
(* Gendelbrot: escape-time rendering of the Mandelbrot set by a CPU worker *)
(* pool (one thread per band of rows, results handed over on channels) or  *)
(* by a GPU kernel launched batch by batch.  Model of src/src/main.rs.     *)
(***************************************************************************)
EXTENDS Integers, Sequences, FiniteSets, TLC

(***************************************************************************)
(* Floating point.  A float is held as an integer count of Unit = 2^-      *)
(* FracBits; an operation rounds its exact result to the nearest value     *)
(* with the format's number of significant bits, ties to even, as IEEE 754 *)
(* does.  f64 and f32 are scaled down to F64Bits and F32Bits significant   *)
(* bits: what is kept is that every operation rounds, that f32 is the      *)
(* coarser format, and that `as f32` rounds again.                         *)
(***************************************************************************)
F64Bits == 8
F32Bits == 5
FracBits == F64Bits + 3

Unit == 2 ^ FracBits

Abs(n) == IF n < 0 THEN -n ELSE n

\* n / q rounded to the nearest integer, ties to the even one (q > 0)
RoundHalfEven(n, q) ==
    LET fl == n \div q
        r  == n % q
    IN  IF 2 * r < q THEN fl
        ELSE IF 2 * r > q THEN fl + 1
        ELSE IF fl % 2 = 0 THEN fl ELSE fl + 1

\* the least e >= 0 with |num / den| < 2^(bits + e)
RECURSIVE Exponent(_, _, _, _)
Exponent(num, den, bits, e) ==
    IF Abs(num) < den * 2 ^ (bits + e) THEN e
    ELSE Exponent(num, den, bits, e + 1)

Rounded(num, den, bits, e) == RoundHalfEven(num, den * 2 ^ e) * 2 ^ e

\* the rational num / den (in Units), rounded to `bits` significant bits
\* (n, d and e name the values of the operands, each worked out once)
RoundTo(num, den, bits) ==
    CHOOSE r \in {Rounded(n, d, bits, e) :
                      <<n, d, e>> \in {<<n, d, Exponent(n, d, bits, 0)>> :
                                          n \in {num}, d \in {den}}} : TRUE

\* f64 arithmetic
F64Add(a, b) == RoundTo(a + b, 1, F64Bits)
F64Sub(a, b) == RoundTo(a - b, 1, F64Bits)
F64Mul(a, b) == RoundTo(a * b, Unit, F64Bits)
F64Div(a, b) == RoundTo(a * Unit, b, F64Bits)
\* `n as f64` of an unsigned integer
UsizeAsF64(n) == RoundTo(n * Unit, 1, F64Bits)

\* f32 arithmetic, and the casts `x as f32`
F32Add(a, b) == RoundTo(a + b, 1, F32Bits)
F32Sub(a, b) == RoundTo(a - b, 1, F32Bits)
F32Mul(a, b) == RoundTo(a * b, Unit, F32Bits)
AsF32(a) == RoundTo(a, 1, F32Bits)
UsizeAsF32(n) == RoundTo(n * Unit, 1, F32Bits)

(***************************************************************************)
(* struct Complex and the escape-time evaluator                            *)
(***************************************************************************)
Complex_new(x, y) == [real |-> x, imaginary |-> y]

\* iterate without the copy: imaginary is computed from the new real
IterateInPlace(z, origin, unit, bits) ==
    LET r == RoundTo(RoundTo(RoundTo(z.real * z.real, unit, bits)
                                 - RoundTo(z.imaginary * z.imaginary, unit, bits),
                             1, bits) + origin.real, 1, bits)
    IN  [real |-> r,
         imaginary |-> RoundTo(RoundTo(RoundTo(r + r, 1, bits) * z.imaginary,
                                       unit, bits) + origin.imaginary, 1, bits)]

\* z.iterate(origin) on floats of `bits` significant bits held as counts of
\* 1 / unit: both fields from the value of z before the call, every
\* operation rounded
IterateIn(z, origin, unit, bits) ==
    [real |-> RoundTo(RoundTo(RoundTo(z.real * z.real, unit, bits)
                                  - RoundTo(z.imaginary * z.imaginary, unit, bits),
                              1, bits) + origin.real, 1, bits),
     imaginary |-> RoundTo(RoundTo(RoundTo(z.real + z.real, 1, bits) * z.imaginary,
                                   unit, bits) + origin.imaginary, 1, bits)]

\* z.iterate(origin) in the scaled f32
iterate(z, origin) == IterateIn(z, origin, Unit, F32Bits)

\* the escape test with > in place of >=
HasEscapedStrict(z) ==
    F32Add(F32Mul(z.real, z.real), F32Mul(z.imaginary, z.imaginary)) > 4 * Unit

has_escaped(z) ==
    F32Add(F32Mul(z.real, z.real), F32Mul(z.imaginary, z.imaginary)) >= 4 * Unit

\* the loop of is_stable with `left` rounds to go (z names the value of copy)
RECURSIVE StableFrom(_, _, _)
StableFrom(copy, origin, left) ==
    \E z \in {copy} :
        IF left <= 0 THEN TRUE
        ELSE IF has_escaped(z) THEN FALSE
        ELSE StableFrom(iterate(z, origin), origin, left - 1)

is_stable(point, stable_iterations) ==
    \E p \in {point} : StableFrom(p, p, stable_iterations)

(***************************************************************************)
(* Command line arguments (struct Args) and the values main derives from   *)
(* them.  `a` is an Args record; lengths are in Units.                     *)
(***************************************************************************)
MaxThreads == 3
MaxWidth == 2
MaxHeight == 3
MaxIterations == 6

STABLE_ITERATIONS == 50

image_width(a) == a.image_size[1]
image_height(a) == a.image_size[2]

real_step(a) == F64Div(a.size[1], UsizeAsF64(image_width(a)))
i_step(a) == F64Div(a.size[2], UsizeAsF64(image_height(a)))
real_start(a) == F64Add(-F64Div(a.size[1], 2 * Unit), a.center[1])
i_start(a) == F64Add(F64Div(a.size[2], 2 * Unit), a.center[2])

\* the slice height rounded up
SliceHeightCeil(a) == (image_height(a) + a.threads - 1) \div a.threads

slice_height(a) == image_height(a) \div a.threads
slice_remainder(a) == image_height(a) % a.threads

\* this_height with the remainder rows forgotten
ThisHeightNoRemainder(a, i) ==
    IF image_height(a) < a.threads THEN image_height(a) ELSE slice_height(a)

\* rows given to thread i: the remainder goes to the last thread, and all
\* rows to the thread spawned when there are more threads than rows
this_height(a, i) ==
    IF image_height(a) < a.threads THEN image_height(a)
    ELSE IF i # a.threads - 1 THEN slice_height(a)
    ELSE slice_height(a) + slice_remainder(a)

\* the first image row of the band of thread i: y starts i * slice_height
\* steps below i_start
band_start(a, i) == i * slice_height(a)

\* number of loop rounds of `for i in 0..threads` that spawn a thread
SpawnCount(a) == IF image_height(a) < a.threads THEN 1 ELSE a.threads

\* done_threads started at 0 whatever the number of threads spawned
InitialDoneThreadsZero(a) == 0

\* done_threads before the wait loop: one less than threads when only one
\* thread was spawned
InitialDoneThreads(a) ==
    IF image_height(a) < a.threads THEN a.threads - 1 ELSE 0

\* x of a worker after j columns of a row: x = real_start; x += real_step
RECURSIVE WorkerX(_, _)
WorkerX(a, j) ==
    IF j = 0 THEN real_start(a) ELSE F64Add(WorkerX(a, j - 1), real_step(a))

\* y one row too low: i_step is subtracted before the row, not after it
WorkerYRowBelow(a, i, r) ==
    F64Sub(i_start(a),
           F64Mul(UsizeAsF64(i * slice_height(a) + r + 1), i_step(a)))

\* y of thread i after r rows: i_start - (i * slice_height) * i_step, then
\* y -= i_step after every row
RECURSIVE WorkerY(_, _, _)
WorkerY(a, i, r) ==
    IF r = 0
    THEN F64Sub(i_start(a), F64Mul(UsizeAsF64(band_start(a, i)), i_step(a)))
    ELSE F64Sub(WorkerY(a, i, r - 1), i_step(a))

\* the byte a worker leaves for the pixel in row r, column j of its slice:
\* the slice starts as u8::MAX everywhere and stable points are set to 0
WorkerPoint(a, i, r, j) ==
    Complex_new(AsF32(WorkerX(a, j)), AsF32(WorkerY(a, i, r)))

WorkerPixel(a, i, r, j) ==
    IF is_stable(WorkerPoint(a, i, r, j), a.iterations) THEN 0 ELSE 255

\* this_slice after row r was computed (index j + r * image_width, from 0)
RowDone(a, i, slice, r) ==
    [k \in 1..Len(slice) |->
        IF (k - 1) \div image_width(a) = r
        THEN WorkerPixel(a, i, r, (k - 1) % image_width(a))
        ELSE slice[k]]

\* the slices left in the order of arrival
SortByKeyUnsorted(s) == s

\* image_slices.sort_by_key(|k| k.0): a stable sort on the thread number
RECURSIVE InsertByKey(_, _)
InsertByKey(sorted, e) ==
    IF sorted = << >> THEN <<e>>
    ELSE IF sorted[Len(sorted)][1] <= e[1] THEN Append(sorted, e)
    ELSE Append(InsertByKey(SubSeq(sorted, 1, Len(sorted) - 1), e),
                sorted[Len(sorted)])

RECURSIVE SortByKey(_)
SortByKey(s) ==
    IF s = << >> THEN << >>
    ELSE InsertByKey(SortByKey(SubSeq(s, 1, Len(s) - 1)), s[Len(s)])

\* every slice put in front of the ones joined before it
RECURSIVE JoinSlicesReversed(_)
JoinSlicesReversed(s) ==
    IF s = << >> THEN << >> ELSE JoinSlicesReversed(Tail(s)) \o s[1][2]

\* for slice in image_slices { final_image.append(slice.1) }
RECURSIVE JoinSlices(_)
JoinSlices(s) ==
    IF s = << >> THEN << >> ELSE s[1][2] \o JoinSlices(Tail(s))

Assembled(slices) == JoinSlices(SortByKey(slices))

\* the slice thread i sends: every row of its band computed
ThreadSlice(a, i) ==
    [k \in 1..(this_height(a, i) * image_width(a)) |->
        WorkerPixel(a, i, (k - 1) \div image_width(a), (k - 1) % image_width(a))]

\* the slices of threads i, i+1, ... of the spawned ones, joined in order
RECURSIVE BandsFrom(_, _)
BandsFrom(a, i) ==
    IF i >= SpawnCount(a) THEN << >>
    ELSE ThreadSlice(a, i) \o BandsFrom(a, i + 1)

(***************************************************************************)
(* The GPU path: batch sizing and the kernel                               *)
(***************************************************************************)
threads_per_block == 256

total(a) == image_width(a) * image_height(a)

\* (total as f64 / threads_per_block as f64 / 100.0).ceil() as usize, and
\* total / threads_per_block when that is below 100.  The f64 quotient is
\* within one rounding of total / 25600 and its ceiling is the integer one.
blocks_per_step(a) ==
    LET per_cent == (total(a) + threads_per_block * 100 - 1)
                        \div (threads_per_block * 100)
    IN  IF per_cent < 100 THEN total(a) \div threads_per_block ELSE per_cent

\* an offset step one short of the threads of a launch
OffsetStepOverlap(a) == threads_per_block * blocks_per_step(a) - 1

offset_step(a) == threads_per_block * blocks_per_step(a)

\* the bounds check taken with > in place of >=
KernelIndexOffByOne(a, off, tid) ==
    LET pos == off + tid
        row == pos \div image_width(a)
        col == pos % image_width(a)
    IN  IF row > image_height(a) THEN -1 ELSE row * image_width(a) + col

\* the index compute_mandelbrot writes for thread tid of a launch at off,
\* or -1 when it returns at the bounds check
KernelIndex(a, off, tid) ==
    LET pos == off + tid
        row == pos \div image_width(a)
        col == pos % image_width(a)
    IN  IF row >= image_height(a) THEN -1 ELSE row * image_width(a) + col

\* the point compute_mandelbrot evaluates at flattened position pos; the
\* launch passes real_start, i_start, real_step and i_step cast to f32
KernelPoint(a, pos) ==
    LET row == pos \div image_width(a)
        col == pos % image_width(a)
        x == F32Add(AsF32(real_start(a)),
                    F32Mul(UsizeAsF32(col), AsF32(real_step(a))))
        y == F32Sub(AsF32(i_start(a)),
                    F32Mul(UsizeAsF32(row), AsF32(i_step(a))))
    IN  Complex_new(x, y)

\* the iteration cap compute_mandelbrot passes to is_stable: the constant,
\* whatever --iterations says
kernel_iterations(a) == STABLE_ITERATIONS

\* the byte it writes there: escaped as u8 * u8::MAX, where escaped holds
\* the result of is_stable
KernelValue(a, pos) ==
    LET escaped == is_stable(KernelPoint(a, pos), kernel_iterations(a))
    IN  IF escaped THEN 255 ELSE 0

(***************************************************************************)
(* State                                                                   *)
(***************************************************************************)
VARIABLES
    args,            \* the parsed command line
    pc,              \* where main is
    workers,         \* the spawned threads, workers[i + 1] is thread i
    tx,              \* the completion channel: <<thread_num, this_slice>>
    ptx,             \* the progress channel: number of 1.0 messages in it
    done_threads,
    image_slices,
    progress,
    final_image,     \* the buffer handed to image::save_buffer
    offset,          \* GPU: the batch offset
    image_buffer_d,  \* GPU: the device buffer, index p + 1 is pixel p
    writes,          \* GPU: how often each pixel was written so far
    inflight,        \* GPU: the launched batches the device has not run yet
    launches,        \* GPU: number of successful launches, up to MaxLaunches
    launch_failed,   \* GPU: a launch has returned Err
    syncs,           \* GPU: number of barriers that have returned Ok
    eval             \* the evaluator call being followed, step by step

vars == <<args, pc, workers, tx, ptx, done_threads, image_slices, progress,
          final_image, offset, image_buffer_d, writes, inflight, launches,
          launch_failed, syncs, eval>>

cpu_vars == <<workers, tx, ptx, done_threads, image_slices, progress>>
gpu_vars == <<offset, image_buffer_d, writes, inflight, launches, launch_failed,
             syncs>>

MaxLaunches == 3

\* a value of device memory that no kernel invocation has written
Uninit == -1

\* no call of is_stable is being followed round by round
NoCall == [result |-> "none"]

Half == Unit \div 2
\* --size and --center; 3.0 and (-0.5, 0.0) are the defaults
Sizes == {<<3 * Unit, 3 * Unit>>, <<3 * Unit, Unit>>, <<Unit, Unit>>}
Centers == {<<-Half, 0>>, <<-Half, 7 * (Unit \div 8)>>}
IterationCaps == {0, MaxIterations}

ArgsCpu ==
    [threads : 0..MaxThreads, iterations : IterationCaps,
     center : Centers, size : Sizes,
     image_size : (0..MaxWidth) \X (0..MaxHeight), gpu : {FALSE}]

InitWith(a) ==
    /\ args = a
    /\ pc = "start"
    /\ workers = << >>
    /\ tx = << >>
    /\ ptx = 0
    /\ done_threads = 0
    /\ image_slices = << >>
    /\ progress = 0
    /\ final_image = << >>
    /\ offset = 0
    /\ image_buffer_d = << >>
    /\ writes = << >>
    /\ inflight = << >>
    /\ launches = 0
    /\ launch_failed = FALSE
    /\ syncs = 0
    /\ eval = NoCall

Init == \E a \in ArgsCpu : InitWith(a)

(***************************************************************************)
(* main up to the choice of backend                                        *)
(***************************************************************************)
\* lines 175-211: image_height / threads panics when threads is 0; the GPU
\* path then allocates the device buffer
Start ==
    /\ pc = "start"
    /\ pc' = IF args.threads = 0 THEN "panicked"
             ELSE IF args.gpu THEN "gpu_loop" ELSE "spawn"
    /\ image_buffer_d' = IF args.threads # 0 /\ args.gpu
                         THEN [p \in 1..total(args) |-> Uninit]
                         ELSE image_buffer_d
    /\ writes' = IF args.threads # 0 /\ args.gpu
                 THEN [p \in 1..total(args) |-> 0]
                 ELSE writes
    /\ UNCHANGED <<args, eval, cpu_vars, final_image, offset, inflight, launches,
                   launch_failed, syncs>>

(***************************************************************************)
(* The CPU path                                                            *)
(***************************************************************************)
\* the spawn loop without its break: a thread for every i in 0..threads
SpawnThreadNoBreak ==
    /\ pc = "spawn"
    /\ LET i == Len(workers)
           last == i + 1 >= args.threads
       IN  /\ workers' = Append(workers,
                  [this_height |-> this_height(args, i),
                   row |-> 0,
                   this_slice |-> [k \in 1..(this_height(args, i)
                                             * image_width(args)) |-> 255],
                   sent |-> FALSE])
           /\ pc' = IF last THEN "wait_rx" ELSE "spawn"
           /\ done_threads' =
                  IF last THEN InitialDoneThreads(args) ELSE done_threads
    /\ UNCHANGED <<args, eval, tx, ptx, image_slices, progress, final_image, gpu_vars>>

\* one round of `for i in 0..threads`: spawn thread i; the loop is left
\* after the last round or at the break, and done_threads is initialised
SpawnThread ==
    /\ pc = "spawn"
    /\ LET i == Len(workers)
           last == image_height(args) < args.threads \/ i + 1 >= args.threads
       IN  /\ workers' = Append(workers,
                  [this_height |-> this_height(args, i),
                   row |-> 0,
                   this_slice |-> [k \in 1..(this_height(args, i)
                                             * image_width(args)) |-> 255],
                   sent |-> FALSE])
           /\ pc' = IF last THEN "wait_rx" ELSE "spawn"
           /\ done_threads' =
                  IF last THEN InitialDoneThreads(args) ELSE done_threads
    /\ UNCHANGED <<args, eval, tx, ptx, image_slices, progress, final_image, gpu_vars>>

\* a worker computes one row of its slice and sends a progress report
WorkerRow(n) ==
    /\ n \in DOMAIN workers
    /\ workers[n].row < workers[n].this_height
    /\ workers' = [workers EXCEPT
           ![n].this_slice = RowDone(args, n - 1, @, workers[n].row),
           ![n].row = @ + 1]
    /\ ptx' = ptx + 1
    /\ UNCHANGED <<args, eval, pc, tx, done_threads, image_slices, progress,
                   final_image, gpu_vars>>

\* a worker sends (thread_num, this_slice) and ends
WorkerSend(n) ==
    /\ n \in DOMAIN workers
    /\ workers[n].row = workers[n].this_height
    /\ ~workers[n].sent
    /\ tx' = Append(tx, <<n - 1, workers[n].this_slice>>)
    /\ workers' = [workers EXCEPT ![n].sent = TRUE]
    /\ UNCHANGED <<args, eval, pc, ptx, done_threads, image_slices, progress,
                   final_image, gpu_vars>>

\* while done_threads < threads { match rx.try_recv() ...
RecvSlice ==
    /\ pc = "wait_rx"
    /\ done_threads < args.threads
    /\ IF tx # << >>
       THEN /\ done_threads' = done_threads + 1
            /\ image_slices' = Append(image_slices, Head(tx))
            /\ tx' = Tail(tx)
       ELSE UNCHANGED <<done_threads, image_slices, tx>>
    /\ pc' = "wait_prx"
    /\ UNCHANGED <<args, eval, workers, ptx, progress, final_image, gpu_vars>>

\* ... match prx.try_recv() ... }
RecvProgress ==
    /\ pc = "wait_prx"
    /\ IF ptx > 0
       THEN /\ ptx' = ptx - 1
            /\ progress' = progress + 1
       ELSE UNCHANGED <<ptx, progress>>
    /\ pc' = "wait_rx"
    /\ UNCHANGED <<args, eval, workers, tx, done_threads, image_slices, final_image,
                   gpu_vars>>

\* the loop is left: sort the slices, join them, save the image
Assemble ==
    /\ pc = "wait_rx"
    /\ done_threads >= args.threads
    /\ final_image' = Assembled(image_slices)
    /\ pc' = "done"
    /\ UNCHANGED <<args, eval, cpu_vars, gpu_vars>>

(***************************************************************************)
(* The GPU path                                                            *)
(***************************************************************************)
MaxGpuWidth == 16
MaxGpuHeight == 16

ArgsGpu ==
    [threads : 0..1, iterations : {MaxIterations, STABLE_ITERATIONS},
     center : Centers, size : {<<3 * Unit, 3 * Unit>>},
     image_size : {0, 1, MaxGpuWidth, MaxGpuWidth + 1}
                  \X {0, 1, MaxGpuHeight, MaxGpuHeight + 1},
     gpu : {TRUE}]

InitGpu == \E a \in ArgsGpu : InitWith(a)

\* while offset < total { launch_with_dptr(...) => Ok: the batch is queued
\* on the device
GpuLaunch ==
    /\ pc = "gpu_loop"
    /\ offset < total(args)
    /\ inflight' = Append(inflight, [offset |-> offset,
                                     threads |-> threads_per_block
                                                 * blocks_per_step(args)])
    /\ launches' = IF launches < MaxLaunches THEN launches + 1 ELSE launches
    /\ pc' = "gpu_report"
    /\ UNCHANGED <<args, eval, cpu_vars, final_image, offset, image_buffer_d, writes,
                   launch_failed, syncs>>

\* a failed launch that is reported and then treated like a successful one
GpuLaunchErrorIgnored ==
    /\ pc = "gpu_loop"
    /\ offset < total(args)
    /\ launch_failed' = TRUE
    /\ pc' = "gpu_report"
    /\ UNCHANGED <<args, eval, cpu_vars, final_image, offset, image_buffer_d, writes,
                   inflight, launches, syncs>>

\* launch_with_dptr(...) => Err(e): report the error and return from main
GpuLaunchError ==
    /\ pc = "gpu_loop"
    /\ offset < total(args)
    /\ launch_failed' = TRUE
    /\ pc' = "aborted"
    /\ UNCHANGED <<args, eval, cpu_vars, final_image, offset, image_buffer_d, writes,
                   inflight, launches, syncs>>

\* offset += offset_step; print the progress
GpuReport ==
    /\ pc = "gpu_report"
    /\ offset' = offset + offset_step(args)
    /\ pc' = "gpu_sync"
    /\ UNCHANGED <<args, eval, cpu_vars, final_image, image_buffer_d, writes,
                   inflight, launches, launch_failed, syncs>>

\* the device runs every kernel invocation of the oldest queued batch
DeviceRun ==
    /\ inflight # << >>
    /\ LET b == Head(inflight)
           hit(p) == {tid \in 0..(b.threads - 1) :
                         KernelIndex(args, b.offset, tid) = p}
       IN  /\ image_buffer_d' =
                  [k \in DOMAIN image_buffer_d |->
                      IF hit(k - 1) # {} THEN KernelValue(args, k - 1)
                      ELSE image_buffer_d[k]]
           /\ writes' = [k \in DOMAIN writes |->
                            writes[k] + Cardinality(hit(k - 1))]
    /\ inflight' = Tail(inflight)
    /\ UNCHANGED <<args, eval, pc, cpu_vars, final_image, offset, launches,
                   launch_failed, syncs>>

\* a barrier that returns while a batch is still queued
GpuSyncNoWait ==
    /\ pc = "gpu_sync"
    /\ pc' = "gpu_loop"
    /\ syncs' = IF syncs < MaxLaunches THEN syncs + 1 ELSE syncs
    /\ UNCHANGED <<args, eval, cpu_vars, final_image, offset, image_buffer_d,
                   writes, inflight, launches, launch_failed>>

\* cuda::device_sync() returns Ok once the device is idle }
GpuSync ==
    /\ pc = "gpu_sync"
    /\ inflight = << >>
    /\ pc' = "gpu_loop"
    /\ syncs' = IF syncs < MaxLaunches THEN syncs + 1 ELSE syncs
    /\ UNCHANGED <<args, eval, cpu_vars, final_image, offset, image_buffer_d,
                   writes, inflight, launches, launch_failed>>

\* cuda::device_sync() returns Err: unwrap panics
GpuSyncError ==
    /\ pc = "gpu_sync"
    /\ pc' = "panicked"
    /\ UNCHANGED <<args, eval, cpu_vars, final_image, gpu_vars>>

\* the loop is left: image_buffer.retrieve(), save the image
GpuRetrieve ==
    /\ pc = "gpu_loop"
    /\ offset >= total(args)
    /\ final_image' = image_buffer_d
    /\ pc' = "done"
    /\ UNCHANGED <<args, eval, cpu_vars, gpu_vars>>

Next ==
    \/ Start
    \/ SpawnThread
    \/ \E n \in 1..MaxThreads : WorkerRow(n)
    \/ \E n \in 1..MaxThreads : WorkerSend(n)
    \/ RecvSlice
    \/ RecvProgress
    \/ Assemble

Spec == Init /\ [][Next]_vars

\* the steps of the main thread and of worker thread n - 1
Main == Start \/ SpawnThread \/ RecvSlice \/ RecvProgress \/ Assemble
Worker(n) == WorkerRow(n) \/ WorkerSend(n)

\* the scheduler is fair: every thread that can take a step eventually
\* takes one
Fairness ==
    /\ WF_vars(Main)
    /\ \A n \in 1..MaxThreads : WF_vars(Worker(n))

\* the renders of the default region of the plane
ArgsLive ==
    {a \in ArgsCpu : /\ a.size = <<3 * Unit, 3 * Unit>>
                     /\ a.center = <<-Half, 0>>
                     /\ a.iterations = MaxIterations}

InitLive == \E a \in ArgsLive : InitWith(a)

LiveSpec == InitLive /\ [][Next]_vars /\ Fairness

NextGpu ==
    \/ Start
    \/ GpuLaunch
    \/ GpuLaunchError
    \/ GpuReport
    \/ DeviceRun
    \/ GpuSync
    \/ GpuSyncError
    \/ GpuRetrieve

SpecGpu == InitGpu /\ [][NextGpu]_vars

(***************************************************************************)
(* One call of Complex::is_stable, followed round by round of its loop     *)
(***************************************************************************)
MaxCoordinate == 10

\* the coordinates of the points evaluated: quarters up to MaxCoordinate / 4
Coordinates == {k * (Unit \div 4) : k \in (-MaxCoordinate)..MaxCoordinate}
\* stable_iterations is an i32: negative and zero caps are passed as well
EvalCaps == {-1, 0, 1, 2, MaxIterations}

\* is_stable(&self, stable_iterations) is entered: copy = self.clone()
InitEval ==
    /\ \E a \in ArgsLive : a.threads = 1 /\ a.image_size = <<1, 1>> /\ args = a
    /\ pc = "is_stable"
    /\ workers = << >> /\ tx = << >> /\ ptx = 0 /\ done_threads = 0
    /\ image_slices = << >> /\ progress = 0 /\ final_image = << >>
    /\ offset = 0 /\ image_buffer_d = << >> /\ writes = << >>
    /\ inflight = << >> /\ launches = 0 /\ launch_failed = FALSE /\ syncs = 0
    /\ \E x \in Coordinates, y \in Coordinates, n \in EvalCaps :
           eval = [self |-> Complex_new(x, y), copy |-> Complex_new(x, y),
                   stable_iterations |-> n, round |-> 0, iterated |-> 0,
                   result |-> "running"]

eval_vars == <<args, pc, cpu_vars, final_image, gpu_vars>>

\* a round of `for _ in 0..stable_iterations` that returns false
EvalEscaped ==
    /\ eval.result = "running"
    /\ eval.round < eval.stable_iterations
    /\ has_escaped(eval.copy)
    /\ eval' = [eval EXCEPT !.result = "false"]
    /\ UNCHANGED eval_vars

\* a round that calls copy.iterate(self)
EvalIterate ==
    /\ eval.result = "running"
    /\ eval.round < eval.stable_iterations
    /\ ~has_escaped(eval.copy)
    /\ eval' = [eval EXCEPT !.copy = iterate(eval.copy, eval.self),
                            !.round = @ + 1,
                            !.iterated = @ + 1]
    /\ UNCHANGED eval_vars

\* the range 0..stable_iterations is exhausted: return true
EvalStable ==
    /\ eval.result = "running"
    /\ eval.round >= eval.stable_iterations
    /\ eval' = [eval EXCEPT !.result = "true"]
    /\ UNCHANGED eval_vars

NextEval ==
    \/ EvalEscaped
    \/ EvalIterate
    \/ EvalStable

SpecEval == InitEval /\ [][NextEval]_vars

(***************************************************************************)
(* Calls of Complex::iterate on whole numbers, as test_complex_iterate     *)
(* makes them.  Whole numbers are held as themselves (unit 1) with the 24  *)
(* significant bits of an f32.                                             *)
(***************************************************************************)
F32Significand == 24

MaxWhole == 2
MaxIterateCalls == 3
\* iterate is called while both fields are at most this large, so that no
\* product leaves the integers of the model
MaxMagnitude == 2047

Wholes == (-MaxWhole)..MaxWhole

\* let mut c1 = Complex::new(x, y); let origin = ...
InitIterate ==
    /\ \E a \in ArgsLive : a.threads = 1 /\ a.image_size = <<1, 1>> /\ args = a
    /\ pc = "iterate"
    /\ workers = << >> /\ tx = << >> /\ ptx = 0 /\ done_threads = 0
    /\ image_slices = << >> /\ progress = 0 /\ final_image = << >>
    /\ offset = 0 /\ image_buffer_d = << >> /\ writes = << >>
    /\ inflight = << >> /\ launches = 0 /\ launch_failed = FALSE /\ syncs = 0
    /\ \E x \in Wholes, y \in Wholes, ox \in Wholes, oy \in Wholes :
           eval = [z |-> Complex_new(x, y), origin |-> Complex_new(ox, oy),
                   first |-> Complex_new(x, y), calls |-> 0,
                   result |-> "iterating"]

\* c1.iterate(&origin)
IterateCall ==
    /\ eval.result = "iterating"
    /\ eval.calls < MaxIterateCalls
    /\ Abs(eval.z.real) <= MaxMagnitude
    /\ Abs(eval.z.imaginary) <= MaxMagnitude
    /\ eval' = [eval EXCEPT
           !.z = IterateIn(eval.z, eval.origin, 1, F32Significand),
           !.calls = @ + 1]
    /\ UNCHANGED eval_vars

NextIterate == IterateCall

SpecIterate == InitIterate /\ [][NextIterate]_vars

(***************************************************************************)
(* Properties                                                              *)
(***************************************************************************)
ValidDims == image_width(args) > 0 /\ image_height(args) > 0

\* the thread whose band holds image row `row`, and the row within the band
RowThread(a, row) ==
    IF image_height(a) < a.threads THEN 0
    ELSE IF row \div slice_height(a) < a.threads THEN row \div slice_height(a)
    ELSE a.threads - 1
RowInBand(a, row) == row - RowThread(a, row) * slice_height(a)

\* C1: the CPU backend's buffer is the same for every worker count: it
\* equals the buffer of the render with one worker, row after row
C1_WorkerCountInvariant ==
    (pc = "done" /\ ~args.gpu)
        => final_image = BandsFrom([args EXCEPT !.threads = 1], 0)

\* what the evaluator says of the point of pixel (row, col), as the backend
\* in use calls it
ClassifiedStable(row, col) ==
    IF args.gpu
    THEN is_stable(KernelPoint(args, row * image_width(args) + col),
                   STABLE_ITERATIONS)
    ELSE is_stable(WorkerPoint(args, RowThread(args, row),
                               RowInBand(args, row), col), args.iterations)

\* C2: in the buffer either backend returns, the byte of pixel (row, col) is
\* 0 when the evaluator classifies its point stable and 255 when escaped
C2_ZeroIffStable ==
    pc = "done" =>
        \A row \in 0..(image_height(args) - 1), col \in 0..(image_width(args) - 1) :
            final_image[row * image_width(args) + col + 1]
                = IF ClassifiedStable(row, col) THEN 0 ELSE 255

\* C3: the GPU backend's buffer equals the CPU backend's buffer for the
\* same parameters
C3_GpuEqualsCpu ==
    (pc = "done" /\ args.gpu) => final_image = BandsFrom(args, 0)

\* C4: the buffer the CPU backend assembles has image_width * image_height
\* bytes, whatever the order of completion
C4_BufferLength ==
    (pc = "done" /\ ~args.gpu /\ ValidDims /\ args.threads > 0)
        => Len(final_image) = image_width(args) * image_height(args)

\* C4 witness: a render with a remainder band whose slices arrived out of
\* thread order
C4_Witness ==
    /\ pc = "done" /\ ~args.gpu /\ ValidDims
    /\ image_height(args) >= args.threads
    /\ slice_remainder(args) > 0
    /\ Len(image_slices) >= 2
    /\ image_slices[1][1] > image_slices[2][1]

\* C5: no pixel is written twice, and when the buffer is retrieved every
\* pixel has been written exactly once
C5_EachPixelWrittenOnce ==
    args.gpu =>
        /\ \A k \in DOMAIN writes : writes[k] <= 1
        /\ (pc = "done" /\ ValidDims) =>
               /\ DOMAIN writes = 1..total(args)
               /\ \A k \in 1..total(args) : writes[k] = 1

\* C5 witness: a buffer retrieved after two batches, the second reaching
\* past the end of the image
C5_Witness ==
    /\ pc = "done" /\ args.gpu /\ ValidDims
    /\ launches = 2
    /\ total(args) % threads_per_block # 0

\* C6: the wait loop is left exactly when as many slices were received as
\* threads were spawned, and with fair scheduling it is left
C6_WaitLoopExits ==
    /\ [](pc \in {"wait_rx", "wait_prx", "done"} =>
            (done_threads >= args.threads
                <=> Len(image_slices) = SpawnCount(args)))
    /\ [](pc \in {"wait_rx", "wait_prx", "done"} => Len(workers) = SpawnCount(args))
    /\ (pc = "start" /\ ValidDims /\ args.threads > 0) ~> (pc = "done")

\* C6 witness: the loop was left after one completion, although threads > 1
C6_Witness ==
    /\ pc = "done" /\ ValidDims
    /\ image_height(args) < args.threads
    /\ Len(image_slices) = 1

\* C7: the batch holds at least one block, so that the offset grows with
\* every launch
C7_BatchAtLeastOneBlock ==
    (args.gpu /\ ValidDims /\ pc \in {"gpu_loop", "gpu_report", "gpu_sync"})
        => blocks_per_step(args) >= 1 /\ offset_step(args) > 0

\* C8: with zero threads or a zero dimension no thread is spawned and no
\* kernel is launched
C8_FailFast ==
    (args.threads = 0 \/ image_width(args) = 0 \/ image_height(args) = 0)
        => workers = << >> /\ launches = 0 /\ pc \in {"start", "panicked"}

\* C9: after a failed launch main has returned: nothing is launched,
\* retrieved or saved any more
C9_LaunchErrorAborts ==
    /\ [](launch_failed => pc = "aborted" /\ final_image = << >>)
    /\ [][launch_failed => UNCHANGED <<pc, offset, launches, inflight,
                                       image_buffer_d, final_image>>]_vars

\* C9 witness: the second launch failed after the first batch was written
C9_Witness ==
    /\ launch_failed
    /\ launches >= 1
    /\ \E k \in DOMAIN writes : writes[k] = 1

\* C10: the final buffer is a function of the parameters only: the slices of
\* the threads in thread order, whatever the interleaving
C10_Deterministic ==
    (pc = "done" /\ ~args.gpu) => final_image = BandsFrom(args, 0)

\* C10 witness: two different slices were received in the opposite order
C10_Witness ==
    /\ pc = "done" /\ ~args.gpu
    /\ Len(image_slices) >= 2
    /\ image_slices[1][1] > image_slices[2][1]
    /\ image_slices[1][2] # image_slices[2][2]

\* the squared magnitude of a point, without rounding, is at least 4.0
OutsideRadius(z) ==
    z.real * z.real + z.imaginary * z.imaginary >= 4 * Unit * Unit

\* C11 as claimed: for a point with real^2 + imaginary^2 >= 4.0 is_stable
\* returns false without a call of iterate, for every iteration cap
C11_EscapedReturnsFalse ==
    (eval.result \in {"true", "false"} /\ OutsideRadius(eval.self))
        => /\ eval.result = "false"
           /\ eval.iterated = 0
           /\ ~is_stable(eval.self, eval.stable_iterations)

\* C11 amended: the same for every iteration cap of at least 1
C11_EscapedReturnsFalsePositiveCap ==
    (/\ eval.result \in {"true", "false"}
     /\ OutsideRadius(eval.self)
     /\ eval.stable_iterations >= 1)
        => /\ eval.result = "false"
           /\ eval.iterated = 0
           /\ ~is_stable(eval.self, eval.stable_iterations)

\* C11 witness: a call for a point on the circle of radius 2 has returned
\* under a cap of 1
C11_Witness ==
    /\ eval.result = "false"
    /\ eval.self = Complex_new(2 * Unit, 0)
    /\ eval.stable_iterations = 1

\* the byte of a point evaluated directly under the iteration cap of args
DirectByte(x, y) ==
    IF is_stable(Complex_new(AsF32(x), AsF32(y)), args.iterations)
    THEN 0 ELSE 255

SinglePixelDone ==
    /\ pc = "done" /\ ~args.gpu
    /\ image_width(args) = 1 /\ image_height(args) = 1

\* C12 as claimed: the buffer of a single-pixel image is the one byte of
\* the center point of the rendered region
C12_SinglePixelIsCenter ==
    SinglePixelDone
        => final_image = <<DirectByte(args.center[1], args.center[2])>>

\* C12 amended: it is the one byte of the point (real_start, i_start), the
\* top left corner of the rendered region
C12_SinglePixelIsCorner ==
    SinglePixelDone
        => final_image = <<DirectByte(real_start(args), i_start(args))>>

\* C12 witness: a single-pixel render under a positive cap whose corner has
\* escaped while the center of the region is stable
C12_Witness ==
    /\ SinglePixelDone
    /\ args.iterations > 0
    /\ final_image = <<255>>
    /\ DirectByte(args.center[1], args.center[2]) = 0

\* the spawn loop is over
AllSpawned == pc \in {"wait_rx", "wait_prx", "done"}

\* the image rows of the band of the worker workers[n]
BandRows(n) ==
    band_start(args, n - 1)
        ..(band_start(args, n - 1) + workers[n].this_height - 1)

\* C13: for image_height > 0 and threads > 0 every image row lies in the
\* band of exactly one spawned worker, no band reaches outside the image,
\* every band but the last has slice_height rows and the last has
\* slice_height + image_height % threads rows
C13_BandsPartitionRows ==
    (AllSpawned /\ image_height(args) > 0 /\ args.threads > 0) =>
        /\ \A r \in 0..(image_height(args) - 1) :
               Cardinality({n \in DOMAIN workers : r \in BandRows(n)}) = 1
        /\ \A n \in DOMAIN workers :
               BandRows(n) \subseteq 0..(image_height(args) - 1)
        /\ \A n \in DOMAIN workers :
               workers[n].this_height =
                   IF n < Len(workers) THEN slice_height(args)
                   ELSE slice_height(args) + slice_remainder(args)

\* C13 witness: several bands, the last one with remainder rows
C13_Witness ==
    /\ AllSpawned
    /\ Len(workers) >= 2
    /\ slice_remainder(args) > 0
    /\ workers[Len(workers)].this_height > workers[1].this_height

\* the buffers of the workers n, n + 1, ... as the threads left them
RECURSIVE BuffersFrom(_)
BuffersFrom(n) ==
    IF n > Len(workers) THEN << >>
    ELSE workers[n].this_slice \o BuffersFrom(n + 1)

\* C14: whatever the order of arrival, the final buffer is the band buffers
\* joined by ascending thread number, and the pixels of output row r are
\* the ones the worker holding image row r computed for it
C14_AscendingBandOrder ==
    (pc = "done" /\ ~args.gpu) =>
        /\ final_image = BuffersFrom(1)
        /\ \A r \in 0..(image_height(args) - 1),
              c \in 0..(image_width(args) - 1) :
               \E n \in DOMAIN workers :
                   /\ r \in BandRows(n)
                   /\ final_image[r * image_width(args) + c + 1]
                          = workers[n].this_slice[
                                (r - band_start(args, n - 1)) * image_width(args)
                                    + c + 1]
                   /\ final_image[r * image_width(args) + c + 1]
                          = WorkerPixel(args, n - 1, r - band_start(args, n - 1), c)

\* C14 witness: three bands whose buffers arrived last band first, and an
\* assembled image that is not of one colour
C14_Witness ==
    /\ pc = "done" /\ ~args.gpu
    /\ Len(image_slices) = 3
    /\ image_slices[1][1] = 2
    /\ image_slices[3][1] = 0
    /\ \E j, k \in DOMAIN final_image : final_image[j] # final_image[k]

\* C15: with image_height > 0 no worker ever has a band without rows; if
\* threads > image_height exactly one worker is spawned and its band is the
\* whole image, otherwise exactly `threads` workers are spawned
C15_CollapseToOneBand ==
    image_height(args) > 0 =>
        /\ \A n \in DOMAIN workers : workers[n].this_height >= 1
        /\ Len(workers) <= SpawnCount(args)
        /\ AllSpawned =>
               IF args.threads > image_height(args)
               THEN /\ Len(workers) = 1
                    /\ workers[1].this_height = image_height(args)
               ELSE Len(workers) = args.threads

\* C15 witness: the wait loop runs with one worker for the whole image
\* although three threads were asked for
C15_Witness ==
    /\ pc = "wait_prx"
    /\ args.threads = 3
    /\ image_height(args) = 2
    /\ Len(workers) = 1
    /\ workers[1].this_height = 2

\* the rows the workers n, n + 1, ... have finished so far
RECURSIVE RowsDoneFrom(_)
RowsDoneFrom(n) ==
    IF n > Len(workers) THEN 0 ELSE workers[n].row + RowsDoneFrom(n + 1)

\* C16: for valid dimensions every finished row has issued one increment,
\* each of them is either still in the channel or tallied, and when the
\* wait loop is left the tally is image_height
C16_NoProgressLost ==
    (~args.gpu /\ ValidDims) =>
        /\ ptx + progress = RowsDoneFrom(1)
        /\ pc = "done" => progress = image_height(args)

\* C17: at most one batch is in flight, and a batch is launched only when
\* the barrier after the previous launch has returned: the launch starts
\* from the head of the loop with no batch left on the device and as many
\* barriers returned as batches launched
C17_OneBatchInFlight ==
    /\ [](args.gpu => Len(inflight) <= 1)
    /\ [][Len(inflight') > Len(inflight)
              => pc = "gpu_loop" /\ inflight = << >> /\ syncs = launches]_vars

\* C17 witness: the second batch has been launched and is in flight
C17_Witness ==
    /\ args.gpu
    /\ launches = 2
    /\ pc = "gpu_report"
    /\ Len(inflight) = 1

\* C18: the progress that includes a batch is reported only after the
\* barrier that follows the launch of that batch has returned: when the
\* offset is advanced and printed, every launch has had its barrier
C18_ReportAfterSync ==
    [][offset' # offset => syncs = launches /\ inflight = << >>]_vars

\* C19: of the kernel invocations of a launched batch, those whose index
\* offset + thread id is at least image_width * image_height return
\* without a write, and the others write inside the buffer (at that index)
C19_KernelBoundsCheck ==
    args.gpu =>
        \A b \in {inflight[k] : k \in DOMAIN inflight} :
            \A tid \in 0..(b.threads - 1) :
                IF b.offset + tid >= total(args)
                THEN KernelIndex(args, b.offset, tid) = -1
                ELSE /\ KernelIndex(args, b.offset, tid) \in 0..(total(args) - 1)
                     /\ KernelIndex(args, b.offset, tid) = b.offset + tid

\* C19 witness: a batch in flight whose last invocations lie past the end
\* of the image while its first ones lie inside
C19_Witness ==
    /\ args.gpu
    /\ inflight # << >>
    /\ inflight[1].offset < total(args)
    /\ inflight[1].offset + inflight[1].threads > total(args)

\* the point the CPU worker evaluates for the pixel at flattened position pos
CpuPoint(a, pos) ==
    WorkerPoint(a, RowThread(a, pos \div image_width(a)),
                RowInBand(a, pos \div image_width(a)), pos % image_width(a))

\* C20: the kernel calls the evaluator with the inputs of the CPU path: for
\* every pixel the same point of the plane, and the iteration cap of the
\* render parameters
C20_SameEvaluatorInputs ==
    (args.gpu /\ launches >= 1) =>
        /\ kernel_iterations(args) = args.iterations
        /\ \A pos \in 0..(total(args) - 1) :
               KernelPoint(args, pos) = CpuPoint(args, pos)

\* C21: a call of iterate leaves real^2 - imaginary^2 + origin.real and
\* 2 * real * imaginary + origin.imaginary, both of the fields before the
\* call, and the same origin; three calls from (1, 2) with origin (1, 2)
\* leave (478, 1366)
C21_IterateSquaresAndAdds ==
    /\ [][eval'.calls = eval.calls + 1 =>
              /\ eval'.z.real = eval.z.real * eval.z.real
                                    - eval.z.imaginary * eval.z.imaginary
                                    + eval.origin.real
              /\ eval'.z.imaginary = 2 * eval.z.real * eval.z.imaginary
                                         + eval.origin.imaginary
              /\ eval'.origin = eval.origin]_vars
    /\ []((/\ eval.first = Complex_new(1, 2)
           /\ eval.origin = Complex_new(1, 2)
           /\ eval.calls = 3)
              => eval.z = Complex_new(478, 1366))

\* C21 witness: the third call from (1, 2) with origin (1, 2) has returned
C21_Witness ==
    /\ eval.result = "iterating"
    /\ eval.first = Complex_new(1, 2)
    /\ eval.origin = Complex_new(1, 2)
    /\ eval.calls = 3
    /\ eval.z.real = 478

\* C22: the running total of the progress display never exceeds its
\* denominator: the rows tallied are at most image_height on the CPU path,
\* the offset printed is at most image_width * image_height on the GPU path
C22_ProgressWithinTotal ==
    IF args.gpu THEN offset <= total(args)
    ELSE progress <= image_height(args)
====
